---- MODULE Spec2Model ----
(***************************************************************************)
(* Model of the adapters of github.com/aldy505/sentry-integration:         *)
(*   redistracer    (cache client hook: DialHook, ProcessHook,             *)
(*                   ProcessPipelineHook)                                  *)
(*   httpclient     (SentryRoundTripper.RoundTrip)                         *)
(*   sqltracer      (sentrySqlDriver.Open / OpenConnector, Connect)        *)
(*   pgxtracer      (Tracer.TraceQueryStart / TraceQueryEnd)               *)
(*   slogbreadcrumb (Handler.Enabled / Handle / WithAttrs / WithGroup)     *)
(*   sloghandler    (SentrySlogHandler.Enabled / Handle / WithAttrs /      *)
(*                   WithGroup, slogAttrToSentryAttr)                      *)
(*                                                                         *)
(* The reporting backend (sentry-go) is modelled as a span store `spans`   *)
(* that counts every span started and every Finish call, and a heap `maps` *)
(* of Go maps, so that a span's Data / Tags field can alias an adapter's   *)
(* configuration map exactly as the code assigns it.  Strings that the     *)
(* code inspects (command names, URLs, command tags) are tuples of         *)
(* one-character strings.                                                  *)
(***************************************************************************)
EXTENDS Integers, Sequences, FiniteSets, TLC

VARIABLES
    spans,        \* reporting backend: every span started so far
    maps,         \* heap of Go maps (span data, tag maps, configuration maps)
    calls,        \* log of the adapter calls that have returned
    conf,         \* redistracer: *config held by the tracingHook
    rt,           \* httpclient: the SentryRoundTripper
    tracer,       \* pgxtracer: the Tracer
    queries,      \* pgxtracer: contexts returned by TraceQueryStart, query running
    arrays,       \* backing arrays of the handlers' attribute slices ([]slog.Attr)
    handlers,     \* slogbreadcrumb: every *Handler allocated so far
    derivations,  \* slogbreadcrumb: log of WithAttrs / WithGroup calls
    observed,     \* slogbreadcrumb: last answer of Enabled / last breadcrumb added
    slogHandlers, \* sloghandler: every *SentrySlogHandler allocated so far
    slogDerived,  \* sloghandler: log of WithAttrs / WithGroup calls
    logged        \* sloghandler: last answer of Enabled / last record handed to the logger

vars == <<spans, maps, calls, conf, rt, tracer, queries,
          arrays, handlers, derivations, observed,
          slogHandlers, slogDerived, logged>>

sentryVars == <<spans, maps, calls>>
crumbVars == <<arrays, handlers, derivations, observed>>
logVars == <<slogHandlers, slogDerived, logged>>

(***************************************************************************)
(* Bounds of the model.                                                    *)
(***************************************************************************)
\* adapter calls (cache, HTTP, SQL, tracer) in one behaviour
MaxCalls == 2
\* commands in one pipeline
MaxCmds == 2
\* WithAttrs / WithGroup calls on the handlers of one behaviour
MaxDerive == 4
\* groups nested inside the outermost group of a log attribute
MaxNest == 3

(***************************************************************************)
(* Strings as tuples of characters.                                        *)
(***************************************************************************)
UpperCase == <<"A","B","C","D","E","F","G","H","I","J","K","L","M","N","O","P","Q","R","S","T","U","V","W","X","Y","Z">>
LowerCase == <<"a","b","c","d","e","f","g","h","i","j","k","l","m","n","o","p","q","r","s","t","u","v","w","x","y","z">>

\* strings.ToLower on one (ASCII) character
ToLowerChar(c) ==
    IF \E i \in DOMAIN UpperCase : UpperCase[i] = c
    THEN LowerCase[CHOOSE i \in DOMAIN UpperCase : UpperCase[i] = c]
    ELSE c

\* strings.ToLower
ToLower(s) == [i \in 1..Len(s) |-> ToLowerChar(s[i])]

\* strings.Contains
Contains(s, t) ==
    \E i \in 0..(Len(s) - Len(t)) : SubSeq(s, i + 1, i + Len(t)) = t

\* strings.HasPrefix
HasPrefix(s, p) == Len(s) >= Len(p) /\ SubSeq(s, 1, Len(p)) = p

Digits == <<"0","1","2","3","4","5","6","7","8","9">>

RECURSIVE FormatUint(_)
\* strconv.FormatUint(n, 10)
FormatUint(n) ==
    IF n < 10 THEN <<Digits[n + 1]>>
    ELSE FormatUint(n \div 10) \o <<Digits[(n % 10) + 1]>>

\* strconv.FormatInt(n, 10)
FormatInt(n) == IF n < 0 THEN <<"-">> \o FormatUint(-n) ELSE FormatUint(n)

(***************************************************************************)
(* Go maps.                                                                *)
(***************************************************************************)
EmptyMap == [k \in {} |-> ""]

MapSet(m, k, v) == [x \in (DOMAIN m) \cup {k} |-> IF x = k THEN v ELSE m[x]]

\* for key, value := range src { dst[key] = value }
MapCopyInto(dst, src) ==
    [x \in (DOMAIN dst) \cup (DOMAIN src) |-> IF x \in DOMAIN src THEN src[x] ELSE dst[x]]

(***************************************************************************)
(* Errors.  NilErr is Go's nil error; every other value is a non-nil error *)
(* value, compared by identity.                                            *)
(***************************************************************************)
NilErr == "nil"
RedisNil == "redis: nil"
WrappedRedisNil == "get k1: redis: nil"
IOTimeout == "i/o timeout"

\* errors.Is(err, redis.Nil): the sentinel itself or an error wrapping it
ErrorsIsRedisNil(err) == err \in {RedisNil, WrappedRedisNil}

(***************************************************************************)
(* The reporting backend: contexts, spans, span data.                      *)
(* A context carries no span, the application's own span (the parent), or  *)
(* a span an adapter started (its index in `spans`).                       *)
(***************************************************************************)
NoSpanCtx == [kind |-> "none", id |-> 0]
AppSpanCtx == [kind |-> "app", id |-> 0]
SpanCtx(id) == [kind |-> "adapter", id |-> id]
Contexts == {NoSpanCtx, AppSpanCtx}

\* mutant: the check for a parent span left out
NoSpanInNever(ctx) == FALSE

\* sentry.SpanFromContext(ctx) == nil
NoSpanIn(ctx) == ctx.kind = "none"

StatusUndefined == "undefined"
StatusOK == "ok"
StatusInternalError == "internal_error"
StatusNotFound == "not_found"

\* the backend state a call works on
Backend == [spans |-> spans, maps |-> maps]

\* sentry.StartSpan(ctx, op, options...) / parent.StartChild(op, options...):
\* always allocates a span; Data and Tags start nil (reference 0)
StartSpan(st, ctx, op, suffix, name, description) ==
    [st EXCEPT !.spans = Append(@,
        [op |-> op, suffix |-> suffix, name |-> name, description |-> description,
         parent |-> ctx, data |-> 0, tags |-> 0,
         status |-> StatusUndefined, finished |-> 0])]

\* the span StartSpan has just returned
NewSpan(st) == Len(st.spans)

\* span.Data = m, for a map that is already on the heap
AssignData(st, id, ref) == [st EXCEPT !.spans[id].data = ref]

\* span.Data = m, for a map the call has just made
AssignNewData(st, id, m) ==
    [st EXCEPT !.maps = Append(@, m), !.spans[id].data = Len(st.maps) + 1]

\* span.Tags = m, for a map that is already on the heap
AssignTags(st, id, ref) == [st EXCEPT !.spans[id].tags = ref]

\* span.SetData(key, value): allocates the map when Data is nil, else writes
\* through the reference
SetData(st, id, key, value) ==
    IF st.spans[id].data = 0
    THEN AssignNewData(st, id, MapSet(EmptyMap, key, value))
    ELSE [st EXCEPT !.maps[st.spans[id].data] = MapSet(@, key, value)]

\* span.SetTag(key, value)
SetTag(st, id, key, value) ==
    IF st.spans[id].tags = 0
    THEN [st EXCEPT !.maps = Append(@, MapSet(EmptyMap, key, value)),
                    !.spans[id].tags = Len(st.maps) + 1]
    ELSE [st EXCEPT !.maps[st.spans[id].tags] = MapSet(@, key, value)]

\* span.Status = status
SetStatus(st, id, status) == [st EXCEPT !.spans[id].status = status]

\* span.Finish(): one more Finish call on the span
Finish(st, id) == [st EXCEPT !.spans[id].finished = @ + 1]

\* the data map a span refers to
DataOf(s) == IF s.data = 0 THEN EmptyMap ELSE maps[s.data]

\* the state after a call: the backend as the call left it, and the call
\* logged with the spans it started and whether it touched the backend at all
Returned(st, call) ==
    /\ spans' = st.spans
    /\ maps' = st.maps
    /\ calls' = Append(calls,
          call @@ [opened |-> [k \in 1..(Len(st.spans) - Len(spans)) |-> Len(spans) + k],
                   changed |-> (st # Backend)])

\* what a call hands to its delegate and gets back
Seen(ctx, args) == <<[ctx |-> ctx, args |-> args]>>
Outcome(res, err) == [res |-> res, err |-> err]

(***************************************************************************)
(* redistracer: configuration (newConfig and its options).                 *)
(***************************************************************************)
ConfMapRef == 1
TagsMapRef == 2
TracerTagsRef == 3

\* WithDBSystem / WithAttributes / WithDBStatement applied to a config under
\* construction: c is [dbSystem, spanData (the map itself), dbStmtEnabled]
ApplyOption(c, opt) ==
    CASE opt.kind = "WithDBSystem" -> [c EXCEPT !.dbSystem = opt.value]
      [] opt.kind = "WithAttributes" -> [c EXCEPT !.spanData = MapCopyInto(@, opt.value)]
      [] opt.kind = "WithDBStatement" -> [c EXCEPT !.dbStmtEnabled = opt.value]

RECURSIVE ApplyOptions(_, _)
ApplyOptions(c, opts) ==
    IF opts = <<>> THEN c ELSE ApplyOptions(ApplyOption(c, Head(opts)), Tail(opts))

\* newConfig(opts...)
newConfig(opts) ==
    LET c == ApplyOptions([dbSystem |-> "redis", spanData |-> EmptyMap,
                           dbStmtEnabled |-> TRUE], opts)
    IN [c EXCEPT !.spanData = MapSet(@, "db.system", c.dbSystem)]

\* the option lists the hook is constructed with
OptionLists ==
    { <<>>,
      <<[kind |-> "WithDBStatement", value |-> FALSE]>>,
      <<[kind |-> "WithAttributes",
         value |-> MapSet(EmptyMap, "network.peer.address", "cache-1")],
        [kind |-> "WithDBSystem", value |-> "valkey"]>> }

(***************************************************************************)
(* redistracer: commands.                                                  *)
(* A command is [name, args]: name is what cmd.Name() returns, args is     *)
(* cmd.Args() (the command word, then its arguments).                      *)
(***************************************************************************)
GetNames == { <<"g","e","t">>, <<"m","g","e","t">>, <<"h","g","e","t">>, <<"h","g","e","t","a","l","l">>, <<"h","m","g","e","t">> }
PutNames == { <<"s","e","t">>, <<"s","e","t","e","x">>, <<"m","s","e","t">>, <<"h","m","s","e","t">>, <<"h","s","e","t">>, <<"h","s","e","t","n","x">>,
              <<"l","s","e","t">>, <<"m","s","e","t","n","x">>, <<"p","s","e","t","e","x">>, <<"s","e","t","b","i","t">>, <<"s","e","t","n","x">>, <<"s","e","t","r","a","n","g","e">> }
RemoveNames == { <<"d","e","l">>, <<"h","d","e","l">> }
FlushNames == { <<"f","l","u","s","h","a","l","l">>, <<"f","l","u","s","h","d","b">> }

\* mutant: the switch on cmd.Name() as it is, capitals not lowered
SpanOperationCaseSensitive(name) ==
    CASE name \in GetNames -> "cache.get"
      [] name \in PutNames -> "cache.put"
      [] name \in RemoveNames -> "cache.remove"
      [] name \in FlushNames -> "cache.flush"
      [] OTHER -> "db.redis"

\* the switch of ProcessHook on strings.ToLower(cmd.Name())
SpanOperation(name) ==
    LET n == ToLower(name) IN
    CASE n \in { <<"g","e","t">>, <<"m","g","e","t">>, <<"h","g","e","t">>, <<"h","g","e","t","a","l","l">>, <<"h","m","g","e","t">> } -> "cache.get"
      [] n \in { <<"s","e","t">>, <<"s","e","t","e","x">>, <<"m","s","e","t">>, <<"h","m","s","e","t">>, <<"h","s","e","t">>, <<"h","s","e","t","n","x">>,
                 <<"l","s","e","t">>, <<"m","s","e","t","n","x">>, <<"p","s","e","t","e","x">>, <<"s","e","t","b","i","t">>, <<"s","e","t","n","x">>,
                 <<"s","e","t","r","a","n","g","e">> } -> "cache.put"
      [] n \in { <<"d","e","l">>, <<"h","d","e","l">> } -> "cache.remove"
      [] n \in { <<"f","l","u","s","h","a","l","l">>, <<"f","l","u","s","h","d","b">> } -> "cache.flush"
      [] OTHER -> "db.redis"

\* rediscmd.CmdString(cmd): the text of the command, as a token over its arguments
CmdString(cmd) == <<cmd.args>>

\* rediscmd.CmdsString(cmds): (summary, text of the batch)
CmdsSummary(cmds) == [i \in 1..Len(cmds) |-> cmds[i].name]
CmdsString(cmds) == [i \in 1..Len(cmds) |-> cmds[i].args]

\* funcFileLine(pkg): the caller's location, taken from the call site
funcFileLine(site) == [fn |-> site, file |-> "main.go", line |-> 42]

\* the per-call span data built by ProcessHook (lines 116-127)
ProcessSpanData(c, confMap, site, cmd) ==
    LET loc == funcFileLine(site)
        d1 == MapCopyInto(EmptyMap, confMap)
        d2 == MapSet(d1, "code.function", loc.fn)
        d3 == MapSet(d2, "code.filepath", loc.file)
        d4 == MapSet(d3, "code.lineno", loc.line)
    IN IF c.dbStmtEnabled THEN MapSet(d4, "db.statement", CmdString(cmd)) ELSE d4

\* mutant: a miss is not an error: the hit flag, and status OK
ProcessOutcomeMissIsOK(st, id, cmd, err) ==
    LET s1 == IF Len(cmd.args) > 1 THEN SetData(st, id, "cache.key", cmd.args[2]) ELSE st
        s2 == IF err # NilErr /\ ~ErrorsIsRedisNil(err)
              THEN SetStatus(SetData(s1, id, "cache.success", FALSE),
                             id, StatusInternalError)
              ELSE SetStatus(SetData(SetData(s1, id, "cache.hit", err = NilErr),
                                     id, "cache.success", err = NilErr), id, StatusOK)
    IN Finish(s2, id)

\* mutant: the span given the configuration map itself, as DialHook does,
\* before the key and the flags are written
ProcessOutcomeOnConfMap(st, id, cmd, err) ==
    LET s0 == AssignData(st, id, ConfMapRef)
        s1 == IF Len(cmd.args) > 1 THEN SetData(s0, id, "cache.key", cmd.args[2]) ELSE s0
        s2 == IF err # NilErr
              THEN LET h == IF ErrorsIsRedisNil(err)
                            THEN SetData(s1, id, "cache.hit", FALSE) ELSE s1
                   IN SetStatus(SetData(h, id, "cache.success", FALSE),
                                id, StatusInternalError)
              ELSE SetStatus(SetData(SetData(s1, id, "cache.hit", TRUE),
                                     id, "cache.success", TRUE), id, StatusOK)
    IN Finish(s2, id)

\* the rest of ProcessHook once the span exists (lines 152-169): the key, the
\* delegate's outcome, the deferred Finish
ProcessOutcome(st, id, cmd, err) ==
    LET s1 == IF Len(cmd.args) > 1 THEN SetData(st, id, "cache.key", cmd.args[2]) ELSE st
        s2 == IF err # NilErr
              THEN LET h == IF ErrorsIsRedisNil(err)
                            THEN SetData(s1, id, "cache.hit", FALSE) ELSE s1
                   IN SetStatus(SetData(h, id, "cache.success", FALSE),
                                id, StatusInternalError)
              ELSE SetStatus(SetData(SetData(s1, id, "cache.hit", TRUE),
                                     id, "cache.success", TRUE), id, StatusOK)
    IN Finish(s2, id)

\* mutant: a cache miss reported to the caller as success
ProcessReturnSwallowMiss(err) == IF err # NilErr /\ ~ErrorsIsRedisNil(err) THEN err ELSE NilErr

\* what ProcessHook returns: `return err` on the error path, `return nil` else
ProcessReturn(err) == IF err # NilErr THEN err ELSE NilErr

\* tracingHook.ProcessHook: the hook around one command; the wrapped hook returns err
ProcessHook(ctx, site, cmd, err) ==
    /\ Len(calls) < MaxCalls
    /\ IF NoSpanIn(ctx)
       THEN Returned(Backend,
                [op |-> "ProcessHook", ctx |-> ctx, site |-> site, args |-> cmd,
                 seen |-> Seen(ctx, cmd), out |-> Outcome("-", err),
                 ret |-> Outcome("-", err)])
       ELSE LET spanData == ProcessSpanData(conf, maps[conf.spanData], site, cmd)
                s1 == StartSpan(Backend, ctx, SpanOperation(cmd.name), <<>>, <<>>, cmd.name)
                id == NewSpan(s1)
                s2 == AssignNewData(s1, id, spanData)
            IN Returned(ProcessOutcome(s2, id, cmd, err),
                [op |-> "ProcessHook", ctx |-> ctx, site |-> site, args |-> cmd,
                 seen |-> Seen(SpanCtx(id), cmd), out |-> Outcome("-", err),
                 ret |-> Outcome("-", ProcessReturn(err))])
    /\ UNCHANGED <<conf, rt, tracer, queries, crumbVars, logVars>>

\* the per-call span data built by ProcessPipelineHook (lines 183-195); the
\* span is not given this map (line 199)
PipelineSpanData(c, confMap, site, cmds) ==
    LET loc == funcFileLine(site)
        d1 == MapCopyInto(EmptyMap, confMap)
        d2 == MapSet(d1, "code.function", loc.fn)
        d3 == MapSet(d2, "code.filepath", loc.file)
        d4 == MapSet(d3, "code.lineno", loc.line)
        d5 == MapSet(d4, "db.redis.num_cmd", Len(cmds))
    IN IF c.dbStmtEnabled THEN MapSet(d5, "db.statement", CmdsString(cmds)) ELSE d5

\* the rest of ProcessPipelineHook once the span exists (lines 202-208)
PipelineOutcome(st, id, err) ==
    Finish(SetStatus(st, id, IF err # NilErr THEN StatusInternalError ELSE StatusOK), id)

\* tracingHook.ProcessPipelineHook: the hook around a batch of commands
ProcessPipelineHook(ctx, site, cmds, err) ==
    /\ Len(calls) < MaxCalls
    /\ IF NoSpanIn(ctx)
       THEN Returned(Backend,
                [op |-> "ProcessPipelineHook", ctx |-> ctx, site |-> site, args |-> cmds,
                 seen |-> Seen(ctx, cmds), out |-> Outcome("-", err),
                 ret |-> Outcome("-", err)])
       ELSE LET s1 == StartSpan(Backend, ctx, "redis.pipeline", CmdsSummary(cmds),
                                <<>>, cmds[1].name)
                id == NewSpan(s1)
                s2 == AssignData(s1, id, conf.spanData)
            IN Returned(PipelineOutcome(s2, id, err),
                [op |-> "ProcessPipelineHook", ctx |-> ctx, site |-> site, args |-> cmds,
                 seen |-> Seen(SpanCtx(id), cmds), out |-> Outcome("-", err),
                 ret |-> Outcome("-", ProcessReturn(err))])
    /\ UNCHANGED <<conf, rt, tracer, queries, crumbVars, logVars>>

\* the rest of DialHook once the span exists (lines 95-102)
DialOutcome(st, id, out) ==
    Finish(SetStatus(st, id, IF out.err # NilErr THEN StatusInternalError ELSE StatusOK), id)

\* what DialHook returns: (nil, err) on the error path, (conn, nil) else
DialReturn(out) ==
    IF out.err # NilErr THEN Outcome("nil", out.err) ELSE Outcome(out.res, NilErr)

\* tracingHook.DialHook: the hook around dialling a connection; the wrapped
\* dial function returns out
DialHook(ctx, addr, out) ==
    /\ Len(calls) < MaxCalls
    /\ LET s1 == StartSpan(Backend, ctx, "redis.dial", <<>>, <<>>, <<>>)
           id == NewSpan(s1)
           s2 == AssignData(s1, id, conf.spanData)
       IN Returned(DialOutcome(s2, id, out),
                [op |-> "DialHook", ctx |-> ctx, args |-> addr,
                 seen |-> Seen(SpanCtx(id), addr), out |-> out,
                 ret |-> DialReturn(out)])
    /\ UNCHANGED <<conf, rt, tracer, queries, crumbVars, logVars>>

(***************************************************************************)
(* httpclient: SentryRoundTripper.                                         *)
(* A URL is [scheme, host, path, query, fragment]; query is the list of    *)
(* key/value pairs of the raw query, in the order they are written.        *)
(***************************************************************************)
RECURSIVE JoinPairs(_)
\* "k=v&k=v..." for a list of pairs
JoinPairs(q) ==
    IF q = <<>> THEN <<>>
    ELSE q[1][1] \o <<"=">> \o q[1][2]
         \o (IF Len(q) > 1 THEN <<"&">> \o JoinPairs(Tail(q)) ELSE <<>>)

\* the rank of a query key (keys are ordered by their first letter)
KeyRank(k) == CHOOSE i \in DOMAIN LowerCase : LowerCase[i] = k[1]

\* the position of the first pair of q with the smallest key
MinKeyIndex(q) ==
    CHOOSE i \in DOMAIN q :
        /\ \A j \in DOMAIN q : KeyRank(q[i][1]) <= KeyRank(q[j][1])
        /\ \A j \in 1..(i - 1) : KeyRank(q[j][1]) # KeyRank(q[i][1])

RECURSIVE SortByKey(_)
\* the pairs ordered by key, pairs of one key kept in their order
SortByKey(q) ==
    IF q = <<>> THEN <<>>
    ELSE LET i == MinKeyIndex(q)
         IN <<q[i]>> \o SortByKey(SubSeq(q, 1, i - 1) \o SubSeq(q, i + 1, Len(q)))

\* request.URL.String()
URLString(u) ==
    u.scheme \o <<":","/","/">> \o u.host \o u.path
    \o (IF u.query # <<>> THEN <<"?">> \o JoinPairs(u.query) ELSE <<>>)
    \o (IF u.fragment # <<>> THEN <<"#">> \o u.fragment ELSE <<>>)

\* request.URL.Query().Encode(): the pairs sorted by key
QueryEncode(u) == JoinPairs(SortByKey(u.query))

\* mutant: the request is traced when any one target is contained
TargetsLoopAny(targets, requestUrlString) ==
    \E k \in DOMAIN targets : Contains(requestUrlString, targets[k])

RECURSIVE TargetsLoop(_, _)
\* the loop over tracePropagationTargets (lines 73-79): TRUE when it runs to
\* its end, FALSE when it returns early at a target the URL does not contain
TargetsLoop(targets, requestUrlString) ==
    IF targets = <<>> THEN TRUE
    ELSE IF Contains(requestUrlString, Head(targets))
         THEN TargetsLoop(Tail(targets), requestUrlString)
         ELSE FALSE

\* lines 70-80: does RoundTrip go on to trace the request?
TargetsPermit(targets, u) ==
    IF Len(targets) > 0 THEN TargetsLoop(targets, URLString(u)) ELSE TRUE

\* mutant: the span named by the whole request URI
TransactionNameWithQuery(request) ==
    request.method \o <<" ">> \o request.url.path
    \o (IF request.url.query # <<>> THEN <<"?">> \o JoinPairs(request.url.query) ELSE <<>>)

\* fmt.Sprintf("%s %s", request.Method, request.URL.Path)
TransactionName(request) == request.method \o <<" ">> \o request.url.path

\* request.Header.Add(key, value)
HeaderAdd(header, key, value) ==
    MapSet(header, key, IF key \in DOMAIN header THEN Append(header[key], value)
                        ELSE <<value>>)

\* span.ToBaggage() / span.ToSentryTrace(): header values naming the span
ToBaggage(id) == <<"baggage", id>>
ToSentryTrace(id) == <<"sentry-trace", id>>

\* lines 92-93: the request as handed to the wrapped RoundTripper
InjectHeaders(request, id) ==
    [request EXCEPT !.header =
        HeaderAdd(HeaderAdd(@, "Baggage", ToBaggage(id)),
                  "Sentry-Trace", ToSentryTrace(id))]

NilResponse == [code |-> 0, status |-> <<>>, contentLength |-> 0]

\* sentry.HTTPtoSpanStatus
HTTPtoSpanStatus(code) ==
    CASE code >= 200 /\ code < 300 -> StatusOK
      [] code = 404 -> StatusNotFound
      [] code >= 500 -> StatusInternalError
      [] OTHER -> "unknown"

\* lines 88-90: the request attributes put on the span
RequestData(st, id, request) ==
    SetData(SetData(SetData(st, id, "http.query", QueryEncode(request.url)),
                    id, "http.fragment", request.url.fragment),
            id, "http.request.method", request.method)

\* mutant: Finish called only when a response came back
RoundTripOutcomeFinishOnResponse(st, id, out) ==
    IF out.res # NilResponse
    THEN Finish(SetData(SetData(SetStatus(st, id, HTTPtoSpanStatus(out.res.code)),
                                id, "http.response.status_code", out.res.status),
                        id, "http.response_content_length", FormatInt(out.res.contentLength)), id)
    ELSE st

\* lines 97-103 and the deferred Finish
RoundTripOutcome(st, id, out) ==
    LET s1 == IF out.res # NilResponse
              THEN SetData(SetData(SetStatus(st, id, HTTPtoSpanStatus(out.res.code)),
                                   id, "http.response.status_code", out.res.status),
                           id, "http.response_content_length", FormatInt(out.res.contentLength))
              ELSE st
    IN Finish(s1, id)

\* SentryRoundTripper.RoundTrip: the wrapped RoundTripper returns out
RoundTrip(request, out) ==
    /\ Len(calls) < MaxCalls
    /\ IF NoSpanIn(request.ctx) \/ ~TargetsPermit(rt.tracePropagationTargets, request.url)
       THEN Returned(Backend,
                [op |-> "RoundTrip", ctx |-> request.ctx, args |-> request,
                 seen |-> Seen(request.ctx, request), out |-> out,
                 ret |-> out])
       ELSE LET s1 == StartSpan(Backend, request.ctx, "http.client", <<>>,
                                TransactionName(request), <<>>)
                id == NewSpan(s1)
                s2 == RequestData(AssignTags(s1, id, rt.tags), id, request)
            IN Returned(RoundTripOutcome(s2, id, out),
                [op |-> "RoundTrip", ctx |-> request.ctx, args |-> request,
                 seen |-> Seen(request.ctx, InjectHeaders(request, id)), out |-> out,
                 ret |-> out])
    /\ UNCHANGED <<conf, rt, tracer, queries, crumbVars, logVars>>

(***************************************************************************)
(* sqltracer: the driver and connector wrappers.                           *)
(***************************************************************************)
\* NewSentrySql(driver, WithDatabaseSystem("mysql"), WithDatabaseName("mydb"))
SqlConfig == [databaseSystem |-> "mysql", databaseName |-> "mydb",
              serverAddress |-> "", serverPort |-> ""]

\* what Open, OpenConnector and Connect return for the delegate's out:
\* (nil, err) on an error, the delegate's result in a wrapper else
WrapReturn(kind, out) ==
    IF out.err # NilErr THEN Outcome("nil", out.err)
    ELSE Outcome([kind |-> kind, original |-> out.res, config |-> SqlConfig], NilErr)

\* sentrySqlDriver.OpenConnector
OpenConnector(name, out) ==
    /\ Len(calls) < MaxCalls
    /\ Returned(Backend,
            [op |-> "OpenConnector", ctx |-> NoSpanCtx, args |-> name,
             seen |-> Seen(NoSpanCtx, name), out |-> out,
             ret |-> WrapReturn("sentrySqlConnector", out)])
    /\ UNCHANGED <<conf, rt, tracer, queries, crumbVars, logVars>>

\* sentrySqlDriver.Open
Open(name, out) ==
    /\ Len(calls) < MaxCalls
    /\ Returned(Backend,
            [op |-> "Open", ctx |-> NoSpanCtx, args |-> name,
             seen |-> Seen(NoSpanCtx, name), out |-> out,
             ret |-> WrapReturn("sentryConn", out)])
    /\ UNCHANGED <<conf, rt, tracer, queries, crumbVars, logVars>>

\* sentrySqlConnector.Connect, on a connector OpenConnector has returned
Connect(ctx, out) ==
    /\ Len(calls) < MaxCalls
    /\ \E i \in DOMAIN calls :
          calls[i].op = "OpenConnector" /\ calls[i].ret.err = NilErr
    /\ Returned(Backend,
            [op |-> "Connect", ctx |-> ctx, args |-> "connector",
             seen |-> Seen(ctx, "connector"), out |-> out,
             ret |-> WrapReturn("sentryConn", out)])
    /\ UNCHANGED <<conf, rt, tracer, queries, crumbVars, logVars>>

(***************************************************************************)
(* pgxtracer: Tracer.                                                      *)
(***************************************************************************)
\* TraceQueryStart: opens a span, returns the context carrying it
TraceQueryStart(ctx, sql) ==
    /\ Len(calls) < MaxCalls
    /\ LET s1 == StartSpan(Backend, ctx, "db.sql.query", <<>>, sql, sql)
           id == NewSpan(s1)
           s2 == SetData(s1, id, "db.system", "postgresql")
       IN /\ Returned(s2,
                [op |-> "TraceQueryStart", ctx |-> ctx, args |-> sql,
                 seen |-> <<>>, out |-> Outcome("-", NilErr),
                 ret |-> Outcome(SpanCtx(id), NilErr)])
          /\ queries' = queries \cup {SpanCtx(id)}
    /\ UNCHANGED <<conf, rt, tracer, crumbVars, logVars>>

RECURSIVE SetTags(_, _, _, _)
\* for k, v := range t.tags { span.SetTag(k, v) }
SetTags(st, id, tags, keys) ==
    IF keys = {} THEN st
    ELSE LET k == CHOOSE x \in keys : TRUE
         IN SetTags(SetTag(st, id, k, tags[k]), id, tags, keys \ {k})

\* lines 85-95: db.operation from the command tag
DbOperation(tag) ==
    CASE HasPrefix(tag, <<"I","N","S","E","R","T">>) -> <<"I","N","S","E","R","T">>
      [] HasPrefix(tag, <<"S","E","L","E","C","T">>) -> <<"S","E","L","E","C","T">>
      [] HasPrefix(tag, <<"D","E","L","E","T","E">>) -> <<"D","E","L","E","T","E">>
      [] HasPrefix(tag, <<"U","P","D","A","T","E">>) -> <<"U","P","D","A","T","E">>
      [] OTHER -> tag

\* lines 97-101: the attributes read from the connection's configuration
ConnData(st, id, config) ==
    SetData(SetData(SetData(st, id, "db.name", config.Database),
                    id, "server.address", config.Host),
            id, "server.port", FormatUint(config.Port))

\* mutant: an early return on the error path, before Finish
QueryOutcomeReturnOnError(st, id, err) ==
    IF err # NilErr
    THEN SetData(SetStatus(st, id, StatusInternalError), id, "error", err)
    ELSE Finish(st, id)

\* lines 103-108: the error, then Finish
QueryOutcome(st, id, err) ==
    LET s1 == IF err # NilErr
              THEN SetData(SetStatus(st, id, StatusInternalError), id, "error", err)
              ELSE st
    IN Finish(s1, id)

\* TraceQueryEnd: data is [tag, err]; config is the connection's configuration
TraceQueryEnd(ctx, data, config) ==
    /\ IF NoSpanIn(ctx)
       THEN /\ Len(calls) < MaxCalls
            /\ Returned(Backend,
                [op |-> "TraceQueryEnd", ctx |-> ctx, args |-> data,
                 seen |-> <<>>, out |-> Outcome("-", data.err),
                 ret |-> Outcome("-", NilErr)])
            /\ UNCHANGED queries
       ELSE /\ ctx \in queries
            /\ LET id == ctx.id
                   s1 == SetTags(Backend, id, maps[tracer.tags], DOMAIN maps[tracer.tags])
                   s2 == SetData(s1, id, "db.operation", DbOperation(data.tag))
                   s3 == ConnData(s2, id, config)
               IN Returned(QueryOutcome(s3, id, data.err),
                    [op |-> "TraceQueryEnd", ctx |-> ctx, args |-> data,
                     seen |-> <<>>, out |-> Outcome("-", data.err),
                     ret |-> Outcome("-", NilErr)])
            /\ queries' = queries \ {ctx}
    /\ UNCHANGED <<conf, rt, tracer, crumbVars, logVars>>

(***************************************************************************)
(* slogbreadcrumb: Handler.                                                *)
(* The attributes field is a Go slice: a backing array (an index into      *)
(* `arrays`), a length and a capacity.  nil is [arr 0, len 0, cap 0].      *)
(***************************************************************************)
ZeroAttr == [Key |-> "", Value |-> ""]
NilSlice == [arr |-> 0, len |-> 0, cap |-> 0]

\* the elements of a slice
View(arrs, sl) == IF sl.len = 0 THEN <<>> ELSE SubSeq(arrs[sl.arr], 1, sl.len)

\* the capacity append gives a slice that has to grow (runtime.growslice for
\* capacities under 256; the allocator's size classes leave the capacity of a
\* few 40-byte slog.Attr values as it is)
GrowCap(oldCap, newLen) == IF newLen > 2 * oldCap THEN newLen ELSE 2 * oldCap

\* append(sl, elems...): writes into the backing array when the capacity
\* allows, allocates a grown copy when not
GoAppend(arrs, sl, elems) ==
    LET newLen == sl.len + Len(elems) IN
    IF newLen <= sl.cap
    THEN [arrays |-> IF elems = <<>> THEN arrs
                     ELSE [arrs EXCEPT ![sl.arr] =
                             [i \in 1..sl.cap |->
                                IF i > sl.len /\ i <= newLen THEN elems[i - sl.len]
                                ELSE @[i]]],
          slice |-> [sl EXCEPT !.len = newLen]]
    ELSE LET c == GrowCap(sl.cap, newLen)
             old == View(arrs, sl)
         IN [arrays |-> Append(arrs,
                          [i \in 1..c |->
                             IF i <= sl.len THEN old[i]
                             ELSE IF i <= newLen THEN elems[i - sl.len]
                             ELSE ZeroAttr]),
             slice |-> [arr |-> Len(arrs) + 1, len |-> newLen, cap |-> c]]

\* the attributes a handler holds
Attributes(h) == View(arrays, handlers[h].attributes)

LevelDebug == -4
LevelInfo == 0
LevelWarn == 4
LevelError == 8

\* toSentryLevel
toSentryLevel(level) ==
    CASE level = LevelDebug -> "debug"
      [] level = LevelInfo -> "info"
      [] level = LevelWarn -> "warning"
      [] level = LevelError -> "error"
      [] OTHER -> "info"

\* Handler.Enabled on the handler s
EnabledAnswer(s, level) == IF ~s.Enable THEN FALSE ELSE level >= s.Level

\* Handler.Enabled
Enabled(h, level) ==
    /\ observed' = [op |-> "Enabled", h |-> h, level |-> level,
                    answer |-> EnabledAnswer(handlers[h], level), crumbs |-> <<>>]
    /\ UNCHANGED <<arrays, handlers, derivations, sentryVars, conf, rt, tracer, queries, logVars>>

\* lines 63-69: the breadcrumb data of a handler with these attributes and group
CrumbData(attrs, group) ==
    LET keys == {attrs[i].Key : i \in DOMAIN attrs}
        last(k) == CHOOSE i \in DOMAIN attrs :
                      attrs[i].Key = k /\ \A j \in DOMAIN attrs : attrs[j].Key = k => j <= i
        data == [k \in keys |-> attrs[last(k)].Value]
    IN IF group # "" THEN MapSet(data, "group", group) ELSE data

\* Handler.Handle: record is [Message, Level]; hasHub says whether the context
\* carries a hub
Handle(h, hasHub, record) ==
    /\ observed' =
          [op |-> "Handle", h |-> h, level |-> record.Level, answer |-> hasHub,
           crumbs |-> IF ~hasHub THEN <<>>
                      ELSE <<[Type |-> "log", Category |-> "log",
                              Message |-> record.Message,
                              Data |-> CrumbData(Attributes(h), handlers[h].group),
                              Level |-> toSentryLevel(record.Level)]>>]
    /\ UNCHANGED <<arrays, handlers, derivations, sentryVars, conf, rt, tracer, queries, logVars>>

\* the handler WithAttrs returns, given the slice append returned
WithAttrsHandler(s, slice) ==
    [Enable |-> s.Enable, Level |-> s.Level, attributes |-> slice, group |-> s.group]

\* mutant: the level left at its zero value
WithGroupHandlerNoLevel(s, name) ==
    [Enable |-> s.Enable, Level |-> 0, attributes |-> s.attributes, group |-> name]

\* the handler WithGroup returns
WithGroupHandler(s, name) ==
    [Enable |-> s.Enable, Level |-> s.Level, attributes |-> s.attributes, group |-> name]

\* the log entry of a derivation from handler h
Derivation(op, h, attrs, name) ==
    [op |-> op, base |-> h, attrs |-> attrs, name |-> name,
     result |-> Len(handlers) + 1,
     baseAttrs |-> Attributes(h), baseGroup |-> handlers[h].group]

\* Handler.WithAttrs
WithAttrs(h, attrs) ==
    /\ Len(derivations) < MaxDerive
    /\ LET r == GoAppend(arrays, handlers[h].attributes, attrs)
       IN /\ arrays' = r.arrays
          /\ handlers' = Append(handlers, WithAttrsHandler(handlers[h], r.slice))
    /\ derivations' = Append(derivations, Derivation("WithAttrs", h, attrs, ""))
    /\ UNCHANGED <<observed, sentryVars, conf, rt, tracer, queries, logVars>>

\* Handler.WithGroup
WithGroup(h, name) ==
    /\ Len(derivations) < MaxDerive
    /\ handlers' = Append(handlers, WithGroupHandler(handlers[h], name))
    /\ derivations' = Append(derivations, Derivation("WithGroup", h, <<>>, name))
    /\ UNCHANGED <<arrays, observed, sentryVars, conf, rt, tracer, queries, logVars>>

(***************************************************************************)
(* sloghandler: SentrySlogHandler.                                         *)
(* A slog.Attr is [Key, Value]; Value is [kind, ...]: a scalar carries v, a *)
(* KindAny value carries `any` (which interfaces the dynamic value         *)
(* implements and whether MarshalJSON fails), a KindGroup value carries    *)
(* the list `group` of its attributes.  A uint64 is [low, top]: the low    *)
(* bits and bit 63.                                                        *)
(***************************************************************************)
\* attribute.String / Bool / Float64 / Int64
attributeString(key, v) == [Key |-> key, Value |-> [type |-> "string", v |-> v]]
attributeBool(key, v) == [Key |-> key, Value |-> [type |-> "bool", v |-> v]]
attributeFloat64(key, v) == [Key |-> key, Value |-> [type |-> "float64", v |-> v]]
attributeInt64(key, v) == [Key |-> key, Value |-> [type |-> "int64", v |-> v]]

\* int64(u) of a uint64: the same bits, bit 63 read as the sign
Int64OfUint64(u) == [low |-> u.low, negative |-> u.top]

\* the slog.KindAny case (lines 38-63)
AnyToSentryAttr(a) ==
    LET x == a.Value.any IN
    IF x.stringer THEN <<attributeString(a.Key, <<"String()", x.id>>)>>
    ELSE IF x.error THEN <<attributeString(a.Key, <<"Error()", x.id>>)>>
    ELSE IF x.marshaler = "ok" THEN <<attributeString(a.Key, <<"MarshalJSON()", x.id>>)>>
    ELSE IF x.valuer THEN <<attributeString(a.Key, <<"LogValue().String()", x.id>>)>>
    ELSE <<>>

RECURSIVE slogAttrToSentryAttr(_), GroupToSentryAttrs(_), GroupToSentryAttrsDirect(_)

\* mutant: the loop of the slog.KindGroup case converting only the scalars
\* directly in the group
GroupToSentryAttrsDirect(attr) ==
    IF attr = <<>> THEN <<>>
    ELSE (IF Head(attr).Value.kind = "Group" THEN <<>>
          ELSE slogAttrToSentryAttr(Head(attr)))
         \o GroupToSentryAttrsDirect(Tail(attr))

\* for _, attr := range attr { attrs = append(attrs, slogAttrToSentryAttr(attr)...) }
GroupToSentryAttrs(attr) ==
    IF attr = <<>> THEN <<>>
    ELSE slogAttrToSentryAttr(Head(attr)) \o GroupToSentryAttrs(Tail(attr))

\* slogAttrToSentryAttr
slogAttrToSentryAttr(a) ==
    LET k == a.Value.kind IN
    CASE k = "Any" -> AnyToSentryAttr(a)
      [] k = "Bool" -> <<attributeBool(a.Key, a.Value.v)>>
      [] k = "Duration" -> <<attributeString(a.Key, <<"Duration.String()", a.Value.v>>)>>
      [] k = "Float64" -> <<attributeFloat64(a.Key, a.Value.v)>>
      [] k = "Int64" -> <<attributeInt64(a.Key, a.Value.v)>>
      [] k = "String" -> <<attributeString(a.Key, a.Value.v)>>
      [] k = "Time" -> <<attributeString(a.Key, <<"Format(RFC3339)", a.Value.v>>)>>
      [] k = "Uint64" -> <<attributeInt64(a.Key, Int64OfUint64(a.Value.v))>>
      [] k = "Group" -> GroupToSentryAttrs(a.Value.group)
      [] k = "LogValuer" ->
            <<attributeString(a.Key, <<"LogValue().String()", a.Value.v>>)>>
      [] OTHER -> <<>>

\* the attributes a handler holds
SlogAttributes(h) == View(arrays, slogHandlers[h].attributes)

\* SentrySlogHandler.Enabled
SlogEnabled(h, level) ==
    /\ logged' = [op |-> "Enabled", h |-> h, level |-> level,
                  answer |-> (level >= slogHandlers[h].level)]
    /\ UNCHANGED <<arrays, slogHandlers, slogDerived, sentryVars, conf, rt, tracer,
                   queries, handlers, derivations, observed>>

\* lines 101-111: the list Handle hands to logger.SetAttributes
HandleAttributes(own, group, recordAttrs) ==
    GroupToSentryAttrs(own)
        \o (IF group # "" THEN <<attributeString("group", group)>> ELSE <<>>)
        \o GroupToSentryAttrs(recordAttrs)

\* lines 115-124: the logger method the record's level selects, if any
HandleEmit(level) ==
    CASE level = LevelDebug -> "Debug"
      [] level = LevelInfo -> "Info"
      [] level = LevelWarn -> "Warn"
      [] level = LevelError -> "Error"
      [] OTHER -> "none"

\* SentrySlogHandler.Handle: record is [Message, Level, attrs]; own and group are
\* the receiver's fields as the call read them
SlogHandle(h, record) ==
    /\ logged' = [op |-> "Handle", h |-> h, record |-> record,
                  own |-> SlogAttributes(h), group |-> slogHandlers[h].group,
                  attributes |-> HandleAttributes(SlogAttributes(h),
                                                  slogHandlers[h].group, record.attrs),
                  emitted |-> HandleEmit(record.Level), ret |-> NilErr]
    /\ UNCHANGED <<arrays, slogHandlers, slogDerived, sentryVars, conf, rt, tracer,
                   queries, handlers, derivations, observed>>

\* the log entry of a derivation from handler h that returned handler r
SlogDerivation(op, h, attrs, name, r) ==
    [op |-> op, base |-> h, attrs |-> attrs, name |-> name, result |-> r,
     baseAttrs |-> SlogAttributes(h), baseGroup |-> slogHandlers[h].group]

\* SentrySlogHandler.WithAttrs: s.attributes = append(s.attributes, attrs...); return s
SlogWithAttrs(h, attrs) ==
    /\ Len(slogDerived) < MaxDerive
    /\ LET r == GoAppend(arrays, slogHandlers[h].attributes, attrs)
       IN /\ arrays' = r.arrays
          /\ slogHandlers' = [slogHandlers EXCEPT ![h].attributes = r.slice]
    /\ slogDerived' = Append(slogDerived, SlogDerivation("WithAttrs", h, attrs, "", h))
    /\ UNCHANGED <<logged, sentryVars, conf, rt, tracer, queries,
                   handlers, derivations, observed>>

\* SentrySlogHandler.WithGroup: s.group = name; return s
SlogWithGroup(h, name) ==
    /\ Len(slogDerived) < MaxDerive
    /\ slogHandlers' = [slogHandlers EXCEPT ![h].group = name]
    /\ slogDerived' = Append(slogDerived, SlogDerivation("WithGroup", h, <<>>, name, h))
    /\ UNCHANGED <<arrays, logged, sentryVars, conf, rt, tracer, queries,
                   handlers, derivations, observed>>

(***************************************************************************)
(* Construction.                                                           *)
(***************************************************************************)
\* the target lists the round tripper is constructed with
TargetLists ==
    { <<>>,
      << <<"a","p","i",".","e","x","a","m","p","l","e",".","c","o","m">> >>,
      << <<"a","p","i",".","e","x","a","m","p","l","e",".","c","o","m">>, <<"o","t","h","e","r",".","t","e","s","t">> >>,
      << <<"o","t","h","e","r",".","t","e","s","t">>, <<"a","p","i",".","e","x","a","m","p","l","e",".","c","o","m">> >>,
      << <<"e","x","a","m","p","l","e">>, <<"/","v","1">> >> }

\* NewSentryRoundTripper(nil, targets, WithTag("service", "shop"))
HttpTags == MapSet(EmptyMap, "service", "shop")

\* NewSentryPgxTracer(WithTag("pool", "main"))
TracerTags == MapSet(EmptyMap, "pool", "main")

\* the breadcrumb handlers the application constructs: &Handler{Enable, Level}
Roots ==
    { [Enable |-> e, Level |-> l, attributes |-> NilSlice, group |-> ""] :
        e \in BOOLEAN, l \in {LevelInfo, LevelWarn} }

\* newTracingHook, NewSentryRoundTripper and NewSentryPgxTracer; nothing called yet
InitSentry(optionLists, targetLists) ==
    /\ spans = <<>>
    /\ calls = <<>>
    /\ queries = {}
    /\ \E opts \in optionLists :
          LET c == newConfig(opts)
          IN /\ conf = [c EXCEPT !.spanData = ConfMapRef]
             /\ maps = <<c.spanData, HttpTags, TracerTags>>
    /\ \E targets \in targetLists :
          rt = [tracePropagationTargets |-> targets, tags |-> TagsMapRef]
    /\ tracer = [tags |-> TracerTagsRef]

\* a root handler; nothing derived or logged yet
InitCrumb(roots) ==
    /\ arrays = <<>>
    /\ \E r \in roots : handlers = <<r>>
    /\ derivations = <<>>
    /\ observed = [op |-> "none", h |-> 0, level |-> 0, answer |-> FALSE, crumbs |-> <<>>]

\* NewSentrySlogHandler(logLevel); nothing derived or logged yet
InitSlog(levels) ==
    /\ \E l \in levels :
          slogHandlers = <<[attributes |-> NilSlice, group |-> "", level |-> l]>>
    /\ slogDerived = <<>>
    /\ logged = [op |-> "none", h |-> 0]

(***************************************************************************)
(* Inputs.                                                                 *)
(***************************************************************************)
\* a name in capitals
ToUpper(s) ==
    [i \in 1..Len(s) |->
        IF \E j \in DOMAIN LowerCase : LowerCase[j] = s[i]
        THEN UpperCase[CHOOSE j \in DOMAIN LowerCase : LowerCase[j] = s[i]]
        ELSE s[i]]

TableNames == GetNames \cup PutNames \cup RemoveNames \cup FlushNames
MixedNames == { <<"G","e","t">>, <<"h","G","e","t","A","l","l">>, <<"S","e","t","N","X">>, <<"D","e","l">>, <<"F","l","u","s","h","D","B">> }
OtherNames == { <<"p","i","n","g">>, <<"g","e","t","s","e","t">>, <<"i","n","c","r">>, <<"g","e","t","s">>, <<"g","e">>, <<"h","g","e","t","a","l">>,
                <<"s","e","t","s">>, <<"d","e","l","e","t","e">>, <<"f","l","u","s","h">>, <<"g","e","t"," ">>, <<>> }
AllNames == TableNames \cup {ToUpper(n) : n \in TableNames} \cup MixedNames \cup OtherNames
SmallNames == { <<"G","E","T">>, <<"s","e","t">>, <<"p","i","n","g">> }
FewNames == { <<"G","E","T">>, <<"p","i","n","g">> }

\* cmd.Args(): the command word alone, or with a key
ArgLists == { <<"c">>, <<"c", "k1">> }
Cmds(names, argLists) == {[name |-> n, args |-> a] : n \in names, a \in argLists}
PipeCmds == << [name |-> <<"s","e","t">>, args |-> <<"c", "k1">>],
              [name |-> <<"G","E","T">>, args |-> <<"c", "k1">>] >>
\* the pipelines of up to MaxCmds commands, set and GET in turn; a pipeline has
\* at least one command (Pipeline.Exec returns early on none)
Pipelines == {[i \in 1..n |-> PipeCmds[(i % 2) + 1]] : n \in 1..MaxCmds}

Sites == {"main.lookup"}
CacheErrors == {NilErr, RedisNil, WrappedRedisNil, IOTimeout}
DialOutcomes == {Outcome("conn", NilErr), Outcome("nil", "connection refused")}
SqlOutcomes == {Outcome("handle", NilErr), Outcome("nil", "bad dsn")}

ItemsUrl == [scheme |-> <<"h","t","t","p","s">>, host |-> <<"a","p","i",".","e","x","a","m","p","l","e",".","c","o","m">>,
             path |-> <<"/","v","1","/","i","t","e","m","s">>, query |-> <<>>, fragment |-> <<>>]
QueryUrl == [ItemsUrl EXCEPT !.query = << << <<"b">>, <<"1">> >>, << <<"a">>, <<"2">> >> >>,
                             !.fragment = <<"t","o","p">>]
OtherUrl == [ItemsUrl EXCEPT !.host = <<"o","t","h","e","r",".","t","e","s","t">>]
ImageUrl == [ItemsUrl EXCEPT !.host = <<"c","d","n",".","t","e","s","t">>, !.path = <<"/","i","m","g">>]

Headers == {EmptyMap, MapSet(EmptyMap, "Baggage", << <<"baggage", 0>> >>)}
Requests(urls, headers) ==
    {[method |-> <<"G","E","T">>, url |-> u, header |-> h, ctx |-> c] :
        u \in urls, h \in headers, c \in Contexts}
HttpOutcomes ==
    {Outcome([code |-> 200, status |-> <<"2","0","0"," ","O","K">>, contentLength |-> 12], NilErr),
     Outcome([code |-> 404, status |-> <<"4","0","4"," ","N","o","t"," ","F","o","u","n","d">>, contentLength |-> -1], NilErr),
     Outcome(NilResponse, IOTimeout)}

QueryEnds ==
    {[tag |-> <<"S","E","L","E","C","T"," ","1">>, err |-> NilErr],
     [tag |-> <<"I","N","S","E","R","T"," ","0"," ","1">>, err |-> NilErr],
     [tag |-> <<"U","P","D","A","T","E"," ","2">>, err |-> NilErr],
     [tag |-> <<"D","E","L","E","T","E"," ","1">>, err |-> NilErr],
     [tag |-> <<"C","R","E","A","T","E"," ","T","A","B","L","E">>, err |-> NilErr],
     [tag |-> <<>>, err |-> "syntax error"]}
ConnConfig == [Database |-> "app", Host |-> "db-1", Port |-> 5432]

AttrA == [Key |-> "a", Value |-> "1"]
AttrB == [Key |-> "b", Value |-> "2"]
AttrC == [Key |-> "a", Value |-> "3"]
Levels == {LevelDebug, LevelInfo, LevelWarn, LevelError}

\* log attributes: a leaf of every slog kind, and of every sort of KindAny value
LogAttr(key, value) == [Key |-> key, Value |-> value]
AnyValue(id, stringer, error, marshaler) ==
    [kind |-> "Any",
     any |-> [id |-> id, stringer |-> stringer, error |-> error,
              marshaler |-> marshaler, valuer |-> FALSE]]
StringLeaf == LogAttr("s", [kind |-> "String", v |-> "text"])
PlainLeaf == LogAttr("p", AnyValue("struct", FALSE, FALSE, "none"))
ScalarLeaves ==
    { StringLeaf,
      LogAttr("i", [kind |-> "Int64", v |-> -7]),
      LogAttr("u", [kind |-> "Uint64", v |-> [low |-> 1, top |-> TRUE]]),
      LogAttr("f", [kind |-> "Float64", v |-> "1.5"]),
      LogAttr("b", [kind |-> "Bool", v |-> TRUE]),
      LogAttr("d", [kind |-> "Duration", v |-> "1500ms"]),
      LogAttr("t", [kind |-> "Time", v |-> "noon"]),
      LogAttr("v", [kind |-> "LogValuer", v |-> "secret"]) }
AnyLeaves ==
    { PlainLeaf,
      LogAttr("n", AnyValue("ip", TRUE, FALSE, "none")),
      LogAttr("e", AnyValue("err", FALSE, TRUE, "none")),
      LogAttr("x", AnyValue("wrapped", TRUE, TRUE, "none")),
      LogAttr("j", AnyValue("doc", FALSE, FALSE, "ok")),
      LogAttr("k", AnyValue("cycle", FALSE, FALSE, "fails")) }
Leaves == ScalarLeaves \cup AnyLeaves
\* what a group holds beside its nested groups: nothing, one leaf of any
\* kind, or two leaves (a key repeated, an unsupported leaf first or last)
LeafLists ==
    {<<>>} \cup {<<a>> : a \in Leaves}
        \cup {<<StringLeaf, StringLeaf>>, <<PlainLeaf, StringLeaf>>, <<StringLeaf, PlainLeaf>>}

\* slog.Group(key, attrs...)
GroupAttr(key, attrs) == LogAttr(key, [kind |-> "Group", group |-> attrs])

\* a group nested d deep: the leaves ls with the nested group after the first
\* of them and a second, flat group at the end (slog.GroupValue drops empty
\* groups inside a group, so only the outermost group can be empty)
RECURSIVE Nested(_, _)
Nested(d, ls) ==
    IF d = 0 \/ ls = <<>> THEN GroupAttr("g", ls)
    ELSE GroupAttr("g", <<Head(ls), Nested(d - 1, ls)>> \o Tail(ls)
                           \o <<GroupAttr("h", ls)>>)

NestedGroups == {Nested(d, ls) : d \in 0..MaxNest, ls \in LeafLists}
LogRecord(level, attrs) == [Message |-> "hello", Level |-> level, attrs |-> attrs]
GroupRecords == {LogRecord(LevelInfo, <<g>>) : g \in NestedGroups}
LevelRecords ==
    {LogRecord(l, <<StringLeaf>>) : l \in Levels \cup {LevelInfo + 2}}

(***************************************************************************)
(* Next-state relations and specifications.                                *)
(***************************************************************************)
CacheNext(cmds, errs) ==
    \/ \E ctx \in Contexts, site \in Sites, cmd \in cmds, err \in errs :
          ProcessHook(ctx, site, cmd, err)
    \/ \E ctx \in Contexts, site \in Sites, cmds2 \in Pipelines, err \in {NilErr, IOTimeout} :
          ProcessPipelineHook(ctx, site, cmds2, err)
    \/ \E ctx \in Contexts, out \in DialOutcomes :
          DialHook(ctx, "cache-1:6379", out)

HttpNext(urls, headers) ==
    \E request \in Requests(urls, headers), out \in HttpOutcomes : RoundTrip(request, out)

SqlNext ==
    \/ \E out \in SqlOutcomes : Open("dsn", out)
    \/ \E out \in SqlOutcomes : OpenConnector("dsn", out)
    \/ \E ctx \in Contexts, out \in SqlOutcomes : Connect(ctx, out)

PgxNext ==
    \/ \E ctx \in Contexts : TraceQueryStart(ctx, <<"S","E","L","E","C","T"," ","1">>)
    \/ \E ctx \in queries \cup {NoSpanCtx}, data \in QueryEnds :
          TraceQueryEnd(ctx, data, ConnConfig)

CrumbNext(attrLists, groups) ==
    \/ \E h \in DOMAIN handlers, attrs \in attrLists : WithAttrs(h, attrs)
    \/ \E h \in DOMAIN handlers, name \in groups : WithGroup(h, name)
    \/ \E h \in DOMAIN handlers, hasHub \in BOOLEAN :
          Handle(h, hasHub, [Message |-> "hello", Level |-> LevelWarn])

EnabledNext ==
    \/ \E h \in DOMAIN handlers : WithAttrs(h, <<AttrA>>)
    \/ \E h \in DOMAIN handlers : WithGroup(h, "g")
    \/ \E h \in DOMAIN handlers, level \in Levels : Enabled(h, level)

DefaultRoot == {[Enable |-> TRUE, Level |-> LevelInfo, attributes |-> NilSlice, group |-> ""]}

\* every wrapping adapter: the cache hooks, the HTTP round tripper, the SQL driver
Next ==
    \/ CacheNext(Cmds(FewNames, ArgLists), {NilErr, RedisNil, IOTimeout})
    \/ HttpNext({ItemsUrl, OtherUrl}, {EmptyMap})
    \/ SqlNext

Init ==
    /\ InitSentry({<<>>}, {<<>>, << <<"a","p","i",".","e","x","a","m","p","l","e",".","c","o","m">> >>})
    /\ InitCrumb(DefaultRoot)
    /\ InitSlog({LevelInfo})

Spec == Init /\ [][Next]_vars

\* the cache hooks alone, every error the wrapped hook can return
InitCache ==
    /\ InitSentry(OptionLists, {<<>>})
    /\ InitCrumb(DefaultRoot)
    /\ InitSlog({LevelInfo})
NextCache == CacheNext(Cmds(SmallNames, ArgLists), CacheErrors)
SpecCache == InitCache /\ [][NextCache]_vars

\* the single-command hook under a parent span, over every command name
InitCommands ==
    /\ InitSentry({<<>>}, {<<>>})
    /\ InitCrumb(DefaultRoot)
    /\ InitSlog({LevelInfo})
NextCommands ==
    \E name \in AllNames :
        ProcessHook(AppSpanCtx, "main.lookup", [name |-> name, args |-> <<"c", "k1">>], NilErr)
SpecCommands == InitCommands /\ [][NextCommands]_vars

\* the HTTP round tripper alone, every target list
InitHttp ==
    /\ InitSentry({<<>>}, TargetLists)
    /\ InitCrumb(DefaultRoot)
    /\ InitSlog({LevelInfo})
NextHttp == HttpNext({ItemsUrl, QueryUrl, OtherUrl, ImageUrl}, Headers)
SpecHttp == InitHttp /\ [][NextHttp]_vars

\* the query tracer alone
InitPgx ==
    /\ InitSentry({<<>>}, {<<>>})
    /\ InitCrumb(DefaultRoot)
    /\ InitSlog({LevelInfo})
SpecPgx == InitPgx /\ [][PgxNext]_vars

\* the breadcrumb handler: derivations and Handle
InitBreadcrumb ==
    /\ InitSentry({<<>>}, {<<>>})
    /\ InitCrumb(DefaultRoot)
    /\ InitSlog({LevelInfo})
NextCrumb == CrumbNext({<<AttrA>>, <<AttrB>>, <<AttrA, AttrB, AttrC>>}, {"g"})
SpecCrumb == InitBreadcrumb /\ [][NextCrumb]_vars

\* the breadcrumb handler: derivations and Enabled
InitEnabled ==
    /\ InitSentry({<<>>}, {<<>>})
    /\ InitCrumb(Roots)
    /\ InitSlog({LevelInfo})
SpecEnabled == InitEnabled /\ [][EnabledNext]_vars

\* the cache hooks and the round tripper in turn, from two call sites and on
\* two keys
TwoSites == {"main.lookup", "main.store"}
KeyedCmds == { [name |-> <<"G","E","T">>, args |-> <<"c", "k1">>],
               [name |-> <<"s","e","t">>, args |-> <<"c", "k2">>],
               [name |-> <<"p","i","n","g">>, args |-> <<"c">>] }
InitConfig ==
    /\ InitSentry(OptionLists, {<< <<"a","p","i",".","e","x","a","m","p","l","e",".","c","o","m">> >>})
    /\ InitCrumb(DefaultRoot)
    /\ InitSlog({LevelInfo})
NextConfig ==
    \/ \E ctx \in Contexts, site \in TwoSites, cmd \in KeyedCmds, err \in {NilErr, RedisNil} :
          ProcessHook(ctx, site, cmd, err)
    \/ \E ctx \in Contexts, site \in TwoSites, cmds \in Pipelines :
          ProcessPipelineHook(ctx, site, cmds, NilErr)
    \/ \E ctx \in Contexts, out \in DialOutcomes :
          DialHook(ctx, "cache-1:6379", out)
    \/ HttpNext({ItemsUrl}, {EmptyMap})
SpecConfig == InitConfig /\ [][NextConfig]_vars

\* the log handler: derivations, Enabled and Handle
InitLog ==
    /\ InitSentry({<<>>}, {<<>>})
    /\ InitCrumb(DefaultRoot)
    /\ InitSlog({LevelInfo, LevelWarn})
NextLog ==
    \/ \E h \in DOMAIN slogHandlers, attrs \in {<<StringLeaf>>, <<PlainLeaf, StringLeaf>>} :
          SlogWithAttrs(h, attrs)
    \/ \E h \in DOMAIN slogHandlers, name \in {"g", "h"} : SlogWithGroup(h, name)
    \/ \E h \in DOMAIN slogHandlers, level \in {LevelInfo, LevelWarn} : SlogEnabled(h, level)
    \/ \E h \in DOMAIN slogHandlers, record \in LevelRecords : SlogHandle(h, record)
SpecLog == InitLog /\ [][NextLog]_vars

\* the log handler flattening records whose attribute is a nested group, the
\* handler itself holding a group
InitFlatten ==
    /\ InitSentry({<<>>}, {<<>>})
    /\ InitCrumb(DefaultRoot)
    /\ InitSlog({LevelInfo})
NextFlatten ==
    \/ \E h \in DOMAIN slogHandlers :
          SlogWithAttrs(h, <<Nested(1, <<PlainLeaf, StringLeaf>>)>>)
    \/ \E h \in DOMAIN slogHandlers : SlogWithGroup(h, "g")
    \/ \E h \in DOMAIN slogHandlers, record \in GroupRecords : SlogHandle(h, record)
SpecFlatten == InitFlatten /\ [][NextFlatten]_vars

(***************************************************************************)
(* Properties.                                                             *)
(***************************************************************************)
CallsOf(ops) == {i \in DOMAIN calls : calls[i].op \in ops}

\* the call was made with a context that carries the application's span
UnderParent(c) == c.ctx = AppSpanCtx

\* the span a traced call started
SpanOf(c) == spans[c.opened[1]]

\* C1: a ProcessHook, ProcessPipelineHook or RoundTrip call whose context carries
\* no parent span invokes the wrapped delegate exactly once with the arguments
\* it was given, returns the delegate's result and error unchanged, starts no
\* span, leaves the backend untouched and adds no header to the request.
C1_NoParentPassThrough ==
    \A i \in CallsOf({"ProcessHook", "ProcessPipelineHook", "RoundTrip"}) :
        LET c == calls[i] IN
        ~UnderParent(c) =>
            /\ Len(c.seen) = 1
            /\ c.seen[1].ctx = c.ctx
            /\ c.seen[1].args = c.args
            /\ c.ret = c.out
            /\ c.opened = <<>>
            /\ ~c.changed

\* all three operations have passed a call through without a parent span, an
\* error among the results
C1_Witness ==
    /\ Len(spans) = 0
    /\ \E i \in CallsOf({"ProcessHook", "ProcessPipelineHook"}) :
          ~UnderParent(calls[i]) /\ calls[i].ret.err = IOTimeout
    /\ \E i \in CallsOf({"RoundTrip"}) :
          ~UnderParent(calls[i]) /\ calls[i].ret.res.code = 200

WrappingOps == {"Open", "OpenConnector", "Connect", "DialHook", "ProcessHook",
                "ProcessPipelineHook", "RoundTrip"}

\* C2: every wrapping operation returns exactly the error its delegate
\* returned, with or without a parent span: the same error value, nil exactly
\* when the delegate's is nil.
C2_ErrorUnchanged ==
    \A i \in CallsOf(WrappingOps) :
        /\ calls[i].ret.err = calls[i].out.err
        /\ (calls[i].ret.err = NilErr) <=> (calls[i].out.err = NilErr)

\* a traced command that missed and a connection that could not be opened,
\* both errors handed back as they were
C2_Witness ==
    /\ \E i \in CallsOf({"ProcessHook"}) :
          /\ UnderParent(calls[i])
          /\ calls[i].out.err = RedisNil
          /\ calls[i].ret.err = RedisNil
    /\ \E i \in CallsOf({"Open", "DialHook"}) :
          calls[i].out.err # NilErr /\ calls[i].ret.err = calls[i].out.err

\* C3: every span an adapter has started was started by exactly one call and
\* has had Finish called on it exactly once by the time that call returned,
\* whether the delegate succeeded or failed.
C3_SpansFinishedOnce ==
    /\ \A id \in DOMAIN spans :
          /\ spans[id].finished = 1
          /\ Cardinality({i \in DOMAIN calls :
                \E k \in DOMAIN calls[i].opened : calls[i].opened[k] = id}) = 1
    /\ \A i \in CallsOf({"DialHook"}) : Len(calls[i].opened) = 1
    /\ \A i \in CallsOf({"ProcessHook", "ProcessPipelineHook"}) :
          UnderParent(calls[i]) => Len(calls[i].opened) = 1

\* a traced command whose delegate failed and a traced round trip that got no
\* response, both spans finished
C3_Witness ==
    /\ \E i \in CallsOf({"ProcessHook", "ProcessPipelineHook", "DialHook"}) :
          /\ calls[i].out.err # NilErr
          /\ Len(calls[i].opened) = 1
          /\ SpanOf(calls[i]).status = StatusInternalError
          /\ SpanOf(calls[i]).finished = 1
    /\ \E i \in CallsOf({"RoundTrip"}) :
          /\ calls[i].out.err # NilErr
          /\ Len(calls[i].opened) = 1
          /\ SpanOf(calls[i]).finished = 1

\* C4: WithAttrs and WithGroup return a new handler and leave the base as it
\* was, and whatever is derived afterwards, from any handler, every derived
\* handler holds exactly its base's attributes followed by the attributes it
\* was given.
C4_DerivedHandlersIndependent ==
    \A i \in DOMAIN derivations :
        LET d == derivations[i] IN
        /\ d.result # d.base
        /\ Attributes(d.base) = d.baseAttrs
        /\ handlers[d.base].group = d.baseGroup
        /\ Attributes(d.result) = d.baseAttrs \o d.attrs

\* C5: under a parent span a round trip is traced (one span, headers injected)
\* exactly when the URL string contains every configured target; otherwise the
\* request is passed through as it came.  With no target every request is traced.
C5_TracedIffAllTargetsMatch ==
    \A i \in CallsOf({"RoundTrip"}) :
        LET c == calls[i]
            url == URLString(c.args.url)
            targets == rt.tracePropagationTargets
            traced == /\ Len(c.opened) = 1
                      /\ "Sentry-Trace" \in DOMAIN c.seen[1].args.header
            untraced == /\ c.opened = <<>>
                        /\ c.seen[1].args = c.args
        IN UnderParent(c) =>
              /\ traced \/ untraced
              /\ traced <=> \A k \in DOMAIN targets : Contains(url, targets[k])

\* of two targets the URL contains one and not the other, whichever comes
\* first, and the request went through untraced
C5_Witness ==
    /\ Len(rt.tracePropagationTargets) = 2
    /\ \E i, j \in CallsOf({"RoundTrip"}) :
          /\ UnderParent(calls[i]) /\ UnderParent(calls[j])
          /\ Contains(URLString(calls[i].args.url), rt.tracePropagationTargets[1])
          /\ ~Contains(URLString(calls[i].args.url), rt.tracePropagationTargets[2])
          /\ ~Contains(URLString(calls[j].args.url), rt.tracePropagationTargets[1])
          /\ Contains(URLString(calls[j].args.url), rt.tracePropagationTargets[2])
          /\ calls[i].opened = <<>> /\ calls[j].opened = <<>>

\* C6: a traced round trip starts exactly one span, named by method and URL
\* path alone ("GET /v1/items", no query string, no fragment), and the wrapped
\* RoundTripper is handed the request with both the Baggage and the
\* Sentry-Trace header of that span already on it.
C6_TracedRoundTrip ==
    \A i \in CallsOf({"RoundTrip"}) :
        LET c == calls[i]
            h == c.seen[1].args.header
        IN c.opened # <<>> =>
              /\ Len(c.opened) = 1
              /\ SpanOf(c).name = c.args.method \o <<" ">> \o c.args.url.path
              /\ (c.args.url.path = <<"/","v","1","/","i","t","e","m","s">> => SpanOf(c).name = <<"G","E","T"," ","/","v","1","/","i","t","e","m","s">>)
              /\ ~Contains(SpanOf(c).name, <<"?">>)
              /\ ~Contains(SpanOf(c).name, <<"#">>)
              /\ Len(c.seen) = 1
              /\ "Baggage" \in DOMAIN h
              /\ \E k \in DOMAIN h["Baggage"] : h["Baggage"][k] = <<"baggage", c.opened[1]>>
              /\ "Sentry-Trace" \in DOMAIN h
              /\ h["Sentry-Trace"] = << <<"sentry-trace", c.opened[1]>> >>

\* the example of the specification, its URL with a query string and a fragment
C6_Witness ==
    /\ rt.tracePropagationTargets = << <<"a","p","i",".","e","x","a","m","p","l","e",".","c","o","m">> >>
    /\ \E i \in CallsOf({"RoundTrip"}) :
          /\ UnderParent(calls[i])
          /\ URLString(calls[i].args.url) = <<"h","t","t","p","s",":","/","/","a","p","i",".","e","x","a","m","p","l","e",".","c","o","m","/","v","1","/","i","t","e","m","s","?","b","=","1","&","a","=","2","#","t","o","p">>
          /\ Len(calls[i].opened) = 1
          /\ SpanOf(calls[i]).name = <<"G","E","T"," ","/","v","1","/","i","t","e","m","s">>
          /\ DataOf(SpanOf(calls[i]))["http.query"] = <<"a","=","2","&","b","=","1">>
          /\ "Sentry-Trace" \in DOMAIN calls[i].seen[1].args.header

\* a name equals t up to the case of its letters
FoldsTo(name, t) ==
    /\ Len(name) = Len(t)
    /\ \A i \in DOMAIN name :
          \/ name[i] = t[i]
          \/ \E j \in DOMAIN UpperCase :
                {name[i], t[i]} = {UpperCase[j], LowerCase[j]}
InFold(name, set) == \E t \in set : FoldsTo(name, t)

\* C7: the operation of the span of a command traced by ProcessHook depends on
\* the command name alone, compared without regard to case: cache.get,
\* cache.put, cache.remove or cache.flush for a name of the four (disjoint)
\* sets, db.redis for every other name.
C7_OperationByName ==
    /\ \A a, b \in {GetNames, PutNames, RemoveNames, FlushNames} : a # b => a \cap b = {}
    /\ \A i \in CallsOf({"ProcessHook"}) :
          LET c == calls[i] IN
          UnderParent(c) =>
              /\ Len(c.opened) = 1
              /\ InFold(c.args.name, GetNames) => SpanOf(c).op = "cache.get"
              /\ InFold(c.args.name, PutNames) => SpanOf(c).op = "cache.put"
              /\ InFold(c.args.name, RemoveNames) => SpanOf(c).op = "cache.remove"
              /\ InFold(c.args.name, FlushNames) => SpanOf(c).op = "cache.flush"
              /\ ~InFold(c.args.name, TableNames) => SpanOf(c).op = "db.redis"

\* a name in capitals and a name outside the table that begins like one in
\* it, each with its operation
C7_Witness ==
    \E i, j \in CallsOf({"ProcessHook"}) :
        /\ calls[i].args.name = <<"H","S","E","T","N","X">> /\ calls[i].opened # <<>>
        /\ SpanOf(calls[i]).op = "cache.put"
        /\ calls[j].args.name = <<"g","e","t","s","e","t">> /\ calls[j].opened # <<>>
        /\ SpanOf(calls[j]).op = "db.redis"

\* C8: the span of a command traced by ProcessHook records, for the redis.Nil
\* sentinel, cache.hit = false, cache.success = false and the internal-error
\* status, the sentinel still being returned; for a nil error cache.hit = true,
\* cache.success = true and status OK; for any other error cache.success =
\* false and the internal-error status.
C8_HitAndSuccess ==
    \A i \in CallsOf({"ProcessHook"}) :
        LET c == calls[i]
            d == DataOf(SpanOf(c))
            flag(k, v) == k \in DOMAIN d /\ d[k] = v
        IN UnderParent(c) =>
              /\ SpanOf(c).finished = 1
              /\ c.out.err = RedisNil =>
                    /\ flag("cache.hit", FALSE) /\ flag("cache.success", FALSE)
                    /\ SpanOf(c).status = StatusInternalError
                    /\ c.ret.err = RedisNil
              /\ c.out.err = NilErr =>
                    /\ flag("cache.hit", TRUE) /\ flag("cache.success", TRUE)
                    /\ SpanOf(c).status = StatusOK
              /\ c.out.err \notin {NilErr, RedisNil} =>
                    /\ flag("cache.success", FALSE)
                    /\ SpanOf(c).status = StatusInternalError

\* a miss and a timeout, both traced: the miss has the hit flag, the timeout
\* has none
C8_Witness ==
    \E i, j \in CallsOf({"ProcessHook"}) :
        /\ UnderParent(calls[i]) /\ calls[i].ret.err = RedisNil
        /\ DataOf(SpanOf(calls[i]))["cache.hit"] = FALSE
        /\ SpanOf(calls[i]).status = StatusInternalError
        /\ UnderParent(calls[j]) /\ calls[j].ret.err = IOTimeout
        /\ "cache.hit" \notin DOMAIN DataOf(SpanOf(calls[j]))
        /\ DataOf(SpanOf(calls[j]))["cache.success"] = FALSE

\* C9: Enabled answers true exactly when the Enable flag the root handler was
\* constructed with is set and the severity is at least its Level, for the root
\* and for every handler derived from it by any sequence of WithAttrs and
\* WithGroup calls.
C9_EnabledByFlagAndFloor ==
    /\ observed.op = "Enabled" =>
          (observed.answer <=>
              (handlers[1].Enable /\ observed.level >= handlers[1].Level))
    /\ \A i \in DOMAIN derivations :
          /\ handlers[derivations[i].result].Enable = handlers[derivations[i].base].Enable
          /\ handlers[derivations[i].result].Level = handlers[derivations[i].base].Level

\* a handler derived twice, by WithGroup and by WithAttrs, with the flag set,
\* refuses a severity below the floor
C9_Witness ==
    /\ observed.op = "Enabled"
    /\ handlers[1].Enable
    /\ observed.level < handlers[1].Level
    /\ ~observed.answer
    /\ \E i, j \in DOMAIN derivations :
          /\ derivations[j].result = observed.h
          /\ derivations[j].base = derivations[i].result
          /\ derivations[i].op # derivations[j].op

\* C10: TraceQueryStart starts one span whatever the incoming context carries
\* and returns the context carrying it; the span is open while the query runs;
\* TraceQueryEnd with that context finishes that span exactly once and marks
\* the error status and records the error text exactly when the query's error
\* is non-nil.  TraceQueryEnd with a context that carries no span does nothing.
C10_QuerySpan ==
    /\ \A i \in CallsOf({"TraceQueryStart"}) :
          /\ Len(calls[i].opened) = 1
          /\ calls[i].ret.res = SpanCtx(calls[i].opened[1])
          /\ SpanOf(calls[i]).parent = calls[i].ctx
    /\ \A id \in DOMAIN spans :
          spans[id].finished = (IF SpanCtx(id) \in queries THEN 0 ELSE 1)
    /\ \A i \in CallsOf({"TraceQueryEnd"}) :
          LET c == calls[i] IN
          IF c.ctx = NoSpanCtx
          THEN ~c.changed /\ c.opened = <<>>
          ELSE LET s == spans[c.ctx.id] IN
               /\ s.finished = 1
               /\ (s.status = StatusInternalError) <=> (c.args.err # NilErr)
               /\ ("error" \in DOMAIN DataOf(s)) <=> (c.args.err # NilErr)
               /\ c.args.err # NilErr => DataOf(s)["error"] = c.args.err

\* a query started without a parent span and ended with an error, its span
\* finished, while a second query is still running
C10_Witness ==
    \E i \in CallsOf({"TraceQueryStart"}), j \in CallsOf({"TraceQueryEnd"}) :
        /\ calls[i].ctx = NoSpanCtx
        /\ calls[j].ctx = calls[i].ret.res
        /\ calls[j].args.err # NilErr
        /\ SpanOf(calls[i]).finished = 1
        /\ SpanOf(calls[i]).status = StatusInternalError
        /\ queries # {}

\* C11: a DialHook call starts no span, whether or not its context carries a
\* parent span, and leaves the backend untouched; it hands the address to the
\* wrapped dial function once and returns that function's error.
C11_DialPassThrough ==
    \A i \in CallsOf({"DialHook"}) :
        LET c == calls[i] IN
        /\ Len(c.seen) = 1
        /\ c.seen[1].args = c.args
        /\ c.ret.err = c.out.err
        /\ c.opened = <<>>
        /\ ~c.changed

\* the per-call keys a cache span can carry
PerKeyFlags == {"cache.key", "cache.hit", "cache.success"}

\* C13: the span finished for a pipeline call under a parent span carries
\* db.redis.num_cmd = number of commands of the batch, db.statement = the text of
\* the batch when statement logging is enabled, every static configuration
\* attribute, and none of cache.key, cache.hit, cache.success.
C13_PipelineSpanData ==
    \A i \in CallsOf({"ProcessPipelineHook"}) :
        LET c == calls[i]
            d == DataOf(SpanOf(c))
            has(k, v) == k \in DOMAIN d /\ d[k] = v
        IN UnderParent(c) =>
              /\ SpanOf(c).finished = 1
              /\ has("db.redis.num_cmd", Len(c.args))
              /\ conf.dbStmtEnabled => has("db.statement", CmdsString(c.args))
              /\ \A k \in DOMAIN maps[ConfMapRef] : has(k, maps[ConfMapRef][k])
              /\ DOMAIN d \cap PerKeyFlags = {}

\* the attributes a cache hook writes for one call
PerCallKeys == PerKeyFlags \cup {"code.function", "db.statement"}

\* a step leaves the hook's configuration, its span-data map, the round
\* tripper's target list and its tag map as they were
ConfigUnchanged ==
    /\ conf' = conf
    /\ maps'[ConfMapRef] = maps[ConfMapRef]
    /\ rt' = rt
    /\ maps'[TagsMapRef] = maps[TagsMapRef]

\* every per-call attribute on a span is the one its own call wrote: the
\* span is ProcessHook's, the key, flags, call site and command text are those
\* of that call
PerCallOwn ==
    \A i \in DOMAIN calls :
        LET c == calls[i] IN
        c.opened # <<>> =>
            LET d == DataOf(SpanOf(c)) IN
            \A k \in DOMAIN d \cap PerCallKeys :
                /\ c.op = "ProcessHook"
                /\ k = "cache.key" => Len(c.args.args) > 1 /\ d[k] = c.args.args[2]
                /\ k = "cache.hit" => d[k] = (c.out.err = NilErr)
                /\ k = "cache.success" => d[k] = (c.out.err = NilErr)
                /\ k = "code.function" => d[k] = c.site
                /\ k = "db.statement" => d[k] = CmdString(c.args)

\* C15: no DialHook, ProcessHook, ProcessPipelineHook or RoundTrip call, in any
\* order, changes the hook's configuration or its span-data map, or the round
\* tripper's target list or tag map, although spans refer to those maps
\* themselves; and after every call each span carries only the per-call
\* attributes of its own call.
C15_ConfigImmutable == [][ConfigUnchanged /\ PerCallOwn']_vars

\* a dial span that refers to the configuration map itself, then a traced
\* command whose key is on its own span and not in the configuration map
C15_Witness ==
    /\ Len(calls) = 2
    /\ calls[1].op = "DialHook"
    /\ SpanOf(calls[1]).data = ConfMapRef
    /\ calls[2].op = "ProcessHook"
    /\ UnderParent(calls[2])
    /\ calls[2].site = "main.store"
    /\ DataOf(SpanOf(calls[2]))["cache.key"] = "k2"
    /\ DOMAIN maps[ConfMapRef] \cap PerCallKeys = {}

\* the kinds of leaf the handler converts: the scalars, durations, timestamps,
\* log valuers, and the objects that produce a string, are errors, or
\* serialise to JSON
Supported(a) ==
    \/ a.Value.kind \in {"Bool", "Duration", "Float64", "Int64", "String", "Time",
                         "Uint64", "LogValuer"}
    \/ /\ a.Value.kind = "Any"
       /\ \/ a.Value.any.stringer
          \/ a.Value.any.error
          \/ a.Value.any.marshaler = "ok"

\* the leaves a list of attributes contains directly or inside its groups,
\* in the order they are written
RECURSIVE LeavesOf(_)
LeavesOf(attrs) ==
    IF attrs = <<>> THEN <<>>
    ELSE (IF Head(attrs).Value.kind = "Group" THEN LeavesOf(Head(attrs).Value.group)
          ELSE <<Head(attrs)>>) \o LeavesOf(Tail(attrs))

KeysOf(attrs) == [i \in DOMAIN attrs |-> attrs[i].Key]

\* C12: the attributes Handle hands to the logger are, for the handler's own
\* attributes and then for the record's, one per leaf of a supported kind that
\* the attribute is or contains at any depth, in the order written, repeated
\* keys kept, with the group label in between when the handler has one; a leaf
\* of an unsupported kind adds nothing, an empty group adds nothing, and Handle
\* returns nil.
C12_GroupFlattening ==
    logged.op = "Handle" =>
        /\ logged.ret = NilErr
        /\ KeysOf(logged.attributes) =
              KeysOf(SelectSeq(LeavesOf(logged.own), Supported))
                 \o (IF logged.group # "" THEN <<"group">> ELSE <<>>)
                 \o KeysOf(SelectSeq(LeavesOf(logged.record.attrs), Supported))
        /\ \A i \in DOMAIN logged.record.attrs :
              KeysOf(slogAttrToSentryAttr(logged.record.attrs[i])) =
                 KeysOf(SelectSeq(LeavesOf(<<logged.record.attrs[i]>>), Supported))

\* a handler that holds a group handles a record whose group is nested two
\* deep and has an unsupported leaf and a string leaf in every group: the five
\* string leaves come out, after the handler's own three and the group label
C12_Witness ==
    /\ logged.op = "Handle"
    /\ logged.record.attrs = <<Nested(2, <<PlainLeaf, StringLeaf>>)>>
    /\ logged.own = <<Nested(1, <<PlainLeaf, StringLeaf>>)>>
    /\ logged.group = "g"
    /\ KeysOf(logged.attributes) =
          <<"s", "s", "s", "group", "s", "s", "s", "s", "s">>

\* C14: WithAttrs and WithGroup return a handler other than the base and leave
\* the base as it was: whatever is derived afterwards, the base holds the
\* attributes and group it had before, and a record handled through it carries
\* only those.
C14_SlogDerivationLeavesBase ==
    \A i \in DOMAIN slogDerived :
        LET d == slogDerived[i] IN
        /\ d.result # d.base
        /\ SlogAttributes(d.base) = d.baseAttrs
        /\ slogHandlers[d.base].group = d.baseGroup
        /\ (logged.op = "Handle" /\ logged.h = d.base) =>
              logged.attributes =
                 HandleAttributes(d.baseAttrs, d.baseGroup, logged.record.attrs)

====
